---------------------------- MODULE Spec2Model ----------------------------
(***************************************************************************)
(* A model of stock.py: the global order book array, addOrder, matchOrder, *)
(* print_orders, the worker generator with its linear congruential seed    *)
(* and the round-robin loop of simulate_transactions.                      *)
(*                                                                         *)
(* The program is single threaded, so there is one control position (pc)   *)
(* and one stack of return positions.  One action is one stretch of code   *)
(* between two positions at which the books are read or a call is made.    *)
(*                                                                         *)
(* An order is the Python list [order_type, ticker_symbol, quantity,       *)
(* price]; here a record with those fields and one more, seq, the number   *)
(* of the addOrder call that created it.  seq stands for the identity of   *)
(* the list object: the program never reads it.                            *)
(***************************************************************************)
EXTENDS Integers, Sequences, FiniteSets, TLC

(***************************************************************************)
(* Program constants.                                                      *)
(***************************************************************************)
NUM_TICKERS == 1024

DEFAULT_NUM_WORKERS == 5

DEFAULT_TRANSACTIONS == 10

LCG_MULTIPLIER == 1103515245

LCG_INCREMENT == 12345

\* LCG_MODULUS - 1 = 2^31 - 1: the largest seed.  LCG_MODULUS itself is one
\* more than the largest integer TLC holds, so the arithmetic modulo
\* LCG_MODULUS is written with this value.
LCG_MODULUS_MINUS_1 == 2147483647

\* LCG_MODULUS // 2
LCG_HALF_MODULUS == 1073741824

\* 123456789, the seed offset of worker 0.
SEED_BASE == 123456789

(***************************************************************************)
(* Bounds of the model.                                                    *)
(***************************************************************************)
\* addOrder calls a client makes in the specification Spec.
MaxCalls == 3

\* num_workers and num_transactions of a simulate_transactions call.
MaxWorkers == 11

MaxTransactions == 6

\* successive simulate_transactions calls in one process.
MaxRuns == 2

\* the specification SpecDraw: the seeds 0..MaxSeed are among those a worker
\* starts a step with, and it makes up to MaxDraws steps from each.
MaxSeed == 40

MaxDraws == 3

(***************************************************************************)
(* Strings.  A ticker symbol is the sequence of its characters.            *)
(***************************************************************************)
Digits == <<"0", "1", "2", "3", "4", "5", "6", "7", "8", "9">>

TICKER == <<"T", "I", "C", "K", "E", "R">>

\* str(n) for n >= 0
RECURSIVE Str(_)
Str(n) == IF n < 10 THEN <<Digits[n + 1]>>
          ELSE Str(n \div 10) \o <<Digits[(n % 10) + 1]>>

\* "TICKER" + str(n)
TickerSymbol(n) == TICKER \o Str(n)

\* s.replace("TICKER", ""): every occurrence, left to right
RECURSIVE Replace(_)
Replace(s) ==
    IF Len(s) < Len(TICKER) THEN s
    ELSE IF SubSeq(s, 1, Len(TICKER)) = TICKER
         THEN Replace(SubSeq(s, Len(TICKER) + 1, Len(s)))
         ELSE <<Head(s)>> \o Replace(Tail(s))

DigitValue(c) == CHOOSE d \in 0..9 : Digits[d + 1] = c

\* int(s) of a string of decimal digits
RECURSIVE ParseInt(_)
ParseInt(s) == IF Len(s) = 0 THEN 0
               ELSE 10 * ParseInt(SubSeq(s, 1, Len(s) - 1)) + DigitValue(s[Len(s)])

\* ticker_to_index without the % NUM_TICKERS
ticker_to_index_unreduced(ticker_symbol) == ParseInt(Replace(ticker_symbol))

ticker_to_index(ticker_symbol) == ParseInt(Replace(ticker_symbol)) % NUM_TICKERS

(***************************************************************************)
(* list.sort(key=...): a stable sort by an integer key.  The two keys of   *)
(* addOrder are lambda x: -x[3] (the Buy list) and lambda x: x[3] (the     *)
(* Sell list).                                                             *)
(***************************************************************************)
SortKey(x, order_type) == IF order_type = "Buy" THEN -x.price ELSE x.price

\* InsertStable with x put before the elements of its own key: a sort that
\* is not stable
RECURSIVE InsertUnstable(_, _, _)
InsertUnstable(s, x, order_type) ==
    IF s = <<>> THEN <<x>>
    ELSE IF SortKey(Head(s), order_type) < SortKey(x, order_type)
         THEN <<Head(s)>> \o InsertUnstable(Tail(s), x, order_type)
         ELSE <<x>> \o s

\* s, sorted, with x put after the elements whose key is not larger
RECURSIVE InsertStable(_, _, _)
InsertStable(s, x, order_type) ==
    IF s = <<>> THEN <<x>>
    ELSE IF SortKey(Head(s), order_type) <= SortKey(x, order_type)
         THEN <<Head(s)>> \o InsertStable(Tail(s), x, order_type)
         ELSE <<x>> \o s

RECURSIVE SortFrom(_, _, _)
SortFrom(done, rest, order_type) ==
    IF rest = <<>> THEN done
    ELSE SortFrom(InsertStable(done, Head(rest), order_type), Tail(rest), order_type)

\* Sort with the sort left out: the list as appended to
SortLeftOut(s, order_type) == s

Sort(s, order_type) == SortFrom(<<>>, s, order_type)

(***************************************************************************)
(* The linear congruential generator of worker:                            *)
(*   (LCG_MULTIPLIER * local_seed + LCG_INCREMENT) % LCG_MODULUS           *)
(* computed in 31 bits without an intermediate value above 2^31 - 1.       *)
(***************************************************************************)
\* (a + b) % LCG_MODULUS for a, b in 0..LCG_MODULUS-1
AddMod(a, b) == IF b > LCG_MODULUS_MINUS_1 - a
                THEN (a - (LCG_MODULUS_MINUS_1 - b)) - 1
                ELSE a + b

\* (a * b) % LCG_MODULUS for a, b in 0..LCG_MODULUS-1, by doubling
RECURSIVE MulMod(_, _)
MulMod(a, b) ==
    IF b = 0 THEN 0
    ELSE LET h == MulMod(AddMod(a, a), b \div 2)
         IN  IF b % 2 = 1 THEN AddMod(h, a) ELSE h

Lcg(local_seed) == AddMod(MulMod(LCG_MULTIPLIER, local_seed), LCG_INCREMENT)

(***************************************************************************)
(* State.                                                                  *)
(***************************************************************************)
VARIABLES
    order_books,       \* the global list, as slot -> [buy_orders, sell_orders]
    pc,                \* the control position
    stack,             \* return positions of the calls under way
    call,              \* arguments of the addOrder / matchOrder call under way
    ncalls,            \* addOrder calls made so far
    trades,            \* the "Matched:" lines printed in the current window
    printed,           \* what the last print_orders call printed, and its caller
    pre,               \* history: the slot of the last addOrder call at its entry
    calls,             \* history: the arguments of the addOrder calls so far
    num_transactions,  \* arguments of simulate_transactions
    num_workers,
    workers,           \* the generators: state, local_seed, txn
    j,                 \* index of the scheduling loop
    active,            \* flag of the scheduling loop
    runs,              \* history: the trades of each finished simulate_transactions
    log                \* history: the rounds, next() calls and orders of the run

vars == <<order_books, pc, stack, call, ncalls, trades, printed, pre, calls,
          num_transactions, num_workers, workers, j, active, runs, log>>

simVars == <<num_transactions, num_workers, workers, j, active, runs, log>>

Slots == 0..(NUM_TICKERS - 1)

(***************************************************************************)
(* order_books is a list of NUM_TICKERS pairs [buy_orders, sell_orders].   *)
(* The variable stores the slots that hold an order; every other slot of   *)
(* Slots is the pair of empty lists it was created as.  Book reads a slot  *)
(* and WithBook writes one.                                                *)
(***************************************************************************)
EmptyBook == [buy_orders |-> <<>>, sell_orders |-> <<>>]

\* order_books after the loop of lines 8-11: every slot is [[], []]
EmptyBooks == [i \in {} |-> EmptyBook]

\* order_books[i]
Book(books, i) == IF i \in DOMAIN books THEN books[i] ELSE EmptyBook

\* order_books with slot i now holding book
WithBook(books, i, book) ==
    IF book = EmptyBook
    THEN [k \in (DOMAIN books) \ {i} |-> books[k]]
    ELSE [k \in (DOMAIN books) \cup {i} |-> IF k = i THEN book ELSE books[k]]

NoCall == [order_type |-> "", ticker_symbol |-> <<>>, quantity |-> 0, price |-> 0]

(***************************************************************************)
(* print_orders: one entry per slot that holds an order, in slot order.    *)
(* The output is kept as the set of (slot, buy list, sell list).           *)
(***************************************************************************)
PrintOrders(books) ==
    {<<i, Book(books, i).buy_orders, Book(books, i).sell_orders>> :
        i \in {k \in DOMAIN books :
                  Book(books, k).buy_orders # <<>> \/ Book(books, k).sell_orders # <<>>}}

(***************************************************************************)
(* addOrder, lines 47-58: build the order, append it to its side, sort the *)
(* side, print the books.  The call of matchOrder (line 59) follows.       *)
(***************************************************************************)
Inserted(books, order) ==
    LET index == ticker_to_index(order.ticker_symbol)
        book == Book(books, index)
    IN  IF order.order_type = "Buy"
        THEN WithBook(books, index,
                 [book EXCEPT !.buy_orders = Sort(Append(@, order), "Buy")])
        ELSE IF order.order_type = "Sell"
        THEN WithBook(books, index,
                 [book EXCEPT !.sell_orders = Sort(Append(@, order), "Sell")])
        ELSE books

\* AddOrder without line 59: the call returns after print_orders
AddOrderWithoutMatch(order_type, ticker_symbol, quantity, price, return_to) ==
    LET order == [order_type |-> order_type, ticker_symbol |-> ticker_symbol,
                  quantity |-> quantity, price |-> price, seq |-> ncalls + 1]
    IN  /\ ncalls' = ncalls + 1
        /\ call' = [order_type |-> order_type, ticker_symbol |-> ticker_symbol,
                    quantity |-> quantity, price |-> price]
        /\ pre' = Book(order_books, ticker_to_index(ticker_symbol))
        /\ calls' = Append(calls, call')
        /\ order_books' = Inserted(order_books, order)
        /\ printed' = [by |-> "addOrder", lines |-> PrintOrders(order_books')]
        /\ stack' = stack
        /\ pc' = return_to

AddOrder(order_type, ticker_symbol, quantity, price, return_to) ==
    LET order == [order_type |-> order_type, ticker_symbol |-> ticker_symbol,
                  quantity |-> quantity, price |-> price, seq |-> ncalls + 1]
    IN  /\ ncalls' = ncalls + 1
        /\ call' = [order_type |-> order_type, ticker_symbol |-> ticker_symbol,
                    quantity |-> quantity, price |-> price]
        /\ pre' = Book(order_books, ticker_to_index(ticker_symbol))
        /\ calls' = Append(calls, call')
        /\ order_books' = Inserted(order_books, order)
        /\ printed' = [by |-> "addOrder", lines |-> PrintOrders(order_books')]
        /\ stack' = stack \o <<return_to, "addOrder_59">>
        /\ pc' = "matchOrder_71"

(***************************************************************************)
(* matchOrder, lines 71-86.                                                *)
(***************************************************************************)
\* Crosses with > for >=
CrossesStrictly(best_buy, best_sell) == best_buy.price > best_sell.price

\* Crosses with index 2 (quantity) for index 3 (price)
CrossesByQuantity(best_buy, best_sell) == best_buy.quantity >= best_sell.quantity

\* line 74
Crosses(best_buy, best_sell) == best_buy.price >= best_sell.price

\* TradeQty with the larger of the two quantities
TradeQtyLarger(best_buy, best_sell) ==
    IF best_buy.quantity > best_sell.quantity THEN best_buy.quantity
    ELSE best_sell.quantity

\* line 76
TradeQty(best_buy, best_sell) ==
    IF best_buy.quantity < best_sell.quantity THEN best_buy.quantity
    ELSE best_sell.quantity

\* Filled with index 3 (price) for index 2 (quantity)
FilledInPrice(orders, trade_qty) ==
    IF Head(orders).price - trade_qty = 0 THEN Tail(orders)
    ELSE [orders EXCEPT ![1].price = @ - trade_qty]

\* Filled with the pop of a filled order left out
FilledNotPopped(orders, trade_qty) ==
    [orders EXCEPT ![1].quantity = @ - trade_qty]

\* Filled with the first order popped whatever is left of it
FilledAlwaysPopped(orders, trade_qty) == Tail(orders)

\* lines 78-83 on one list: the first order filled by trade_qty, popped at 0
Filled(orders, trade_qty) ==
    IF Head(orders).quantity - trade_qty = 0 THEN Tail(orders)
    ELSE [orders EXCEPT ![1].quantity = @ - trade_qty]

\* what line 77 prints
Trade(best_buy, best_sell, trade_qty) ==
    LET shown(o) == <<o.order_type, o.ticker_symbol, o.quantity, o.price>>
    IN  [buy |-> shown(best_buy), sell |-> shown(best_sell), trade_qty |-> trade_qty]

\* the loop is entered and line 74 holds
CanMatch(book) ==
    /\ book.buy_orders # <<>>
    /\ book.sell_orders # <<>>
    /\ Crosses(Head(book.buy_orders), Head(book.sell_orders))

\* one iteration of the loop that matches
MatchStep ==
    /\ pc = "matchOrder_71"
    /\ LET index == ticker_to_index(call.ticker_symbol)
           book == Book(order_books, index)
       IN  /\ CanMatch(book)
           /\ LET best_buy == Head(book.buy_orders)
                  best_sell == Head(book.sell_orders)
                  trade_qty == TradeQty(best_buy, best_sell)
              IN  /\ trades' = Append(trades, Trade(best_buy, best_sell, trade_qty))
                  /\ order_books' =
                        WithBook(order_books, index,
                            [buy_orders |-> Filled(book.buy_orders, trade_qty),
                             sell_orders |-> Filled(book.sell_orders, trade_qty)])
    /\ UNCHANGED <<pc, stack, call, ncalls, printed, pre, calls>>
    /\ UNCHANGED simVars

\* the loop ends (line 71 or line 85), line 86 prints, matchOrder returns;
\* a return into addOrder (line 59) is addOrder's return as well
MatchReturn ==
    /\ pc = "matchOrder_71"
    /\ ~CanMatch(Book(order_books, ticker_to_index(call.ticker_symbol)))
    /\ printed' = [by |-> "matchOrder", lines |-> PrintOrders(order_books)]
    /\ LET n == Len(stack)
       IN  IF stack[n] = "addOrder_59"
           THEN /\ pc' = stack[n - 1]
                /\ stack' = SubSeq(stack, 1, n - 2)
           ELSE /\ pc' = stack[n]
                /\ stack' = SubSeq(stack, 1, n - 1)
    /\ UNCHANGED <<order_books, call, ncalls, trades, pre, calls>>
    /\ UNCHANGED simVars

(***************************************************************************)
(* A client of addOrder: any sequence of calls, arguments from small sets. *)
(***************************************************************************)
OrderTypes == {"Buy", "Sell"}

\* TICKER7 and TICKER1031 share slot 7; TICKER8 has slot 8
TickerNumbers == {7, 8, 1031}

\* (quantity, price) of a call; the last two are a quantity and a price
\* that section 7 of the specification calls invalid
QuantityPrice == {<<10, 100>>, <<4, 90>>, <<0, 100>>, <<4, -1>>}

ClientAddOrder ==
    /\ pc = "client"
    /\ ncalls < MaxCalls
    /\ \E order_type \in OrderTypes, n \in TickerNumbers, qp \in QuantityPrice :
          AddOrder(order_type, TickerSymbol(n), qp[1], qp[2], "client")
    /\ trades' = <<>>
    /\ UNCHANGED simVars

Init ==
    /\ order_books = EmptyBooks
    /\ pc = "client"
    /\ stack = <<>>
    /\ call = NoCall
    /\ ncalls = 0
    /\ trades = <<>>
    /\ printed = [by |-> "", lines |-> {}]
    /\ pre = EmptyBook
    /\ calls = <<>>
    /\ num_transactions = 0
    /\ num_workers = 0
    /\ workers = <<>>
    /\ j = 0
    /\ active = FALSE
    /\ runs = <<>>
    /\ log = <<>>

Next == ClientAddOrder \/ MatchStep \/ MatchReturn

Spec == Init /\ [][Next]_vars

(***************************************************************************)
(* simulate_transactions and worker.                                       *)
(*                                                                         *)
(* A generator is "created" until its first next(), "suspended" at the     *)
(* yield of line 118, "running" while the scheduler's next() is under way  *)
(* and "done" once its loop has ended (next() raised StopIteration).       *)
(***************************************************************************)
\* tickers[ticker_index], the list built by lines 125-129
Tickers(ticker_index) == TickerSymbol(ticker_index)

\* line 131-132: worker(num_transactions, tickers, worker_id), not yet started
NewWorker(worker_id) ==
    [state |-> "created", worker_id |-> worker_id, local_seed |-> 0, txn |-> 0]

\* the four draws of lines 99-113 from local_seed: the seed after each
Draws(local_seed) ==
    LET s1 == Lcg(local_seed)
        s2 == Lcg(s1)
        s3 == Lcg(s2)
        s4 == Lcg(s3)
    IN  <<s1, s2, s3, s4>>

\* OrderType by the low bit of the seed
OrderTypeLowBit(seed) == IF seed % 2 = 0 THEN "Buy" ELSE "Sell"

\* lines 100-103
OrderType(seed) == IF seed < LCG_HALF_MODULUS THEN "Buy" ELSE "Sell"

\* lines 106-107
TickerOf(seed) == Tickers(seed % NUM_TICKERS)

\* QuantityOf without the + 1
QuantityOfFromZero(seed) == seed % 100

\* line 110
QuantityOf(seed) == (seed % 100) + 1

\* PriceOf with 1000 for 991
PriceOfWide(seed) == (seed % 1000) + 10

\* line 113
PriceOf(seed) == (seed % 991) + 10

\* LoopGoesOn with <= for <: one step too many
LoopGoesOnOnceMore(txn, transactions) == txn <= transactions

\* line 97: while txn < num_transactions
LoopGoesOn(txn, transactions) == txn < transactions

\* NextIndex without the step: the loop stays on one worker
NextIndexStuck(index) == index

\* NextIndex with a step of two: every other worker is passed over
NextIndexSkipping(index) == index + 2

\* line 143: j += 1
NextIndex(index) == index + 1

\* lines 125-133: the call of simulate_transactions, up to the loop
SimulateTransactions ==
    /\ pc = "main"
    /\ Len(runs) < MaxRuns
    /\ workers' = [worker_id \in 1..num_workers |-> NewWorker(worker_id - 1)]
    /\ active' = TRUE
    /\ j' = 0
    /\ trades' = <<>>
    /\ log' = <<>>
    /\ pc' = "simulate_134"
    /\ UNCHANGED <<order_books, stack, call, ncalls, printed, pre, calls,
                   num_transactions, num_workers, runs>>

\* lines 134-136: one more round, or the return of simulate_transactions
SchedulerRound ==
    /\ pc = "simulate_134"
    /\ IF active
       THEN /\ active' = FALSE
            /\ j' = 0
            /\ pc' = "simulate_137"
            /\ log' = Append(log, <<"round">>)
            /\ UNCHANGED runs
       ELSE /\ runs' = Append(runs, trades)
            /\ pc' = "main"
            /\ UNCHANGED <<active, j, log>>
    /\ UNCHANGED <<order_books, stack, call, ncalls, trades, printed, pre, calls,
                   num_transactions, num_workers, workers>>

\* line 137, the loop over the workers has ended
SchedulerRoundEnd ==
    /\ pc = "simulate_137"
    /\ ~(j < Len(workers))
    /\ pc' = "simulate_134"
    /\ UNCHANGED <<order_books, stack, call, ncalls, trades, printed, pre, calls,
                   num_transactions, num_workers, workers, j, active, runs, log>>

\* lines 137-139: next(workers[j]).  A generator that is done raises
\* StopIteration at once (lines 141-143); a created one starts with lines
\* 95-96; a suspended one goes on after its yield.  Both reach line 97.
SchedulerNext ==
    /\ pc = "simulate_137"
    /\ j < Len(workers)
    /\ LET w == workers[j + 1]
       IN  /\ log' = Append(log, <<"next", j, w.txn>>)
           /\ IF w.state = "done"
              THEN /\ j' = NextIndex(j)
                   /\ UNCHANGED <<pc, workers>>
              ELSE /\ workers' =
                         [workers EXCEPT ![j + 1] =
                             IF w.state = "created"
                             THEN [w EXCEPT !.state = "running",
                                            !.local_seed = SEED_BASE + w.worker_id,
                                            !.txn = 0]
                             ELSE [w EXCEPT !.state = "running"]]
                   /\ pc' = "worker_97"
                   /\ UNCHANGED j
    /\ UNCHANGED <<order_books, stack, call, ncalls, trades, printed, pre, calls,
                   num_transactions, num_workers, active, runs>>

\* lines 97-115: the loop goes on, four draws, and the call of addOrder
WorkerOrder ==
    /\ pc = "worker_97"
    /\ LET w == workers[j + 1]
           d == Draws(w.local_seed)
       IN  /\ LoopGoesOn(w.txn, num_transactions)
           /\ workers' = [workers EXCEPT ![j + 1].local_seed = d[4]]
           /\ log' = Append(log, <<"order", j, w.txn + 1, d>>)
           /\ AddOrder(OrderType(d[1]), TickerOf(d[2]), QuantityOf(d[3]),
                       PriceOf(d[4]), "worker_116")
    /\ UNCHANGED <<trades, num_transactions, num_workers, j, active, runs>>

\* line 116: the worker's own call of matchOrder
WorkerMatch ==
    /\ pc = "worker_116"
    /\ stack' = Append(stack, "worker_117")
    /\ pc' = "matchOrder_71"
    /\ UNCHANGED <<order_books, call, ncalls, trades, printed, pre, calls>>
    /\ UNCHANGED simVars

\* lines 117-118 and 140, 143: txn += 1, yield; next() returns
WorkerYield ==
    /\ pc = "worker_117"
    /\ workers' = [workers EXCEPT ![j + 1].txn = @ + 1,
                                  ![j + 1].state = "suspended"]
    /\ active' = TRUE
    /\ j' = NextIndex(j)
    /\ pc' = "simulate_137"
    /\ UNCHANGED <<order_books, stack, call, ncalls, trades, printed, pre, calls,
                   num_transactions, num_workers, runs, log>>

\* line 97 with the loop ended: the generator returns, next() raises
\* StopIteration; lines 141-143
WorkerStop ==
    /\ pc = "worker_97"
    /\ ~LoopGoesOn(workers[j + 1].txn, num_transactions)
    /\ workers' = [workers EXCEPT ![j + 1].state = "done"]
    /\ j' = NextIndex(j)
    /\ pc' = "simulate_137"
    /\ UNCHANGED <<order_books, stack, call, ncalls, trades, printed, pre, calls,
                   num_transactions, num_workers, active, runs, log>>

\* a process that calls simulate_transactions, with books as created
InitSim ==
    /\ order_books = EmptyBooks
    /\ pc = "main"
    /\ stack = <<>>
    /\ call = NoCall
    /\ ncalls = 0
    /\ trades = <<>>
    /\ printed = [by |-> "", lines |-> {}]
    /\ pre = EmptyBook
    /\ calls = <<>>
    /\ num_transactions \in (0..MaxTransactions) \cup {DEFAULT_TRANSACTIONS}
    /\ num_workers \in (0..MaxWorkers) \cup {DEFAULT_NUM_WORKERS}
    /\ workers = <<>>
    /\ j = 0
    /\ active = FALSE
    /\ runs = <<>>
    /\ log = <<>>

NextSim ==
    \/ SimulateTransactions
    \/ SchedulerRound
    \/ SchedulerRoundEnd
    \/ SchedulerNext
    \/ WorkerOrder
    \/ WorkerMatch
    \/ WorkerYield
    \/ WorkerStop
    \/ MatchStep
    \/ MatchReturn

SpecSim == InitSim /\ [][NextSim]_vars

(***************************************************************************)
(* The order a worker builds, as a function of its seed: lines 99-114 of   *)
(* worker from any local_seed, without the calls of lines 115-116, which   *)
(* read no seed.  The generator's seed runs through all of                 *)
(* 0..LCG_MODULUS-1, so a step can start from any of them.                 *)
(***************************************************************************)
\* seeds a step starts from: the least ones, the first seeds of the
\* workers, the largest Buy seed, the least Sell seed and the largest seed;
\* the seeds that Lcg takes to those three and to 0; the seeds 19253 and
\* 148948, whose steps build the orders 1 @ 10 and 100 @ 1000
SeedSample ==
    (0..MaxSeed)
        \cup {SEED_BASE + worker_id : worker_id \in 0..MaxWorkers}
        \cup {LCG_HALF_MODULUS - 1, LCG_HALF_MODULUS, LCG_MODULUS_MINUS_1}
        \cup {1304279838, 1014474371, 230538014, 2088216195}
        \cup {19253, 148948}

\* lines 99-114: four draws, the order built from them and printed
WorkerDraws ==
    /\ pc = "worker_97"
    /\ Len(log) < MaxDraws
    /\ LET w == workers[j + 1]
           d == Draws(w.local_seed)
       IN  /\ workers' = [workers EXCEPT ![j + 1].local_seed = d[4]]
           /\ log' = Append(log, <<"order", j, Len(log) + 1, d>>)
           /\ call' = [order_type |-> OrderType(d[1]), ticker_symbol |-> TickerOf(d[2]),
                       quantity |-> QuantityOf(d[3]), price |-> PriceOf(d[4])]
    /\ UNCHANGED <<order_books, pc, stack, ncalls, trades, printed, pre, calls,
                   num_transactions, num_workers, j, active, runs>>

\* one generator, running, at line 97 with some seed
InitDraw ==
    /\ order_books = EmptyBooks
    /\ pc = "worker_97"
    /\ stack = <<>>
    /\ call = NoCall
    /\ ncalls = 0
    /\ trades = <<>>
    /\ printed = [by |-> "", lines |-> {}]
    /\ pre = EmptyBook
    /\ calls = <<>>
    /\ num_transactions = MaxDraws
    /\ num_workers = 1
    /\ workers \in {<<[state |-> "running", worker_id |-> 0, local_seed |-> seed, txn |-> 0]>> :
                        seed \in SeedSample}
    /\ j = 0
    /\ active = FALSE
    /\ runs = <<>>
    /\ log = <<>>

NextDraw == WorkerDraws

SpecDraw == InitDraw /\ [][NextDraw]_vars

(***************************************************************************)
(* Properties.  A slot the variable order_books does not store holds no    *)
(* order, so the properties range over the stored slots.                   *)
(***************************************************************************)
Range(s) == {s[k] : k \in 1..Len(s)}

StoredSlots == DOMAIN order_books

\* the slot of the call under way (or of the last call)
CallSlot == ticker_to_index(call.ticker_symbol)

\* either list empty, or the first buy price below the first sell price
NotCrossed(buy_orders, sell_orders) ==
    \/ buy_orders = <<>>
    \/ sell_orders = <<>>
    \/ Head(buy_orders).price < Head(sell_orders).price

\* the list as quantity@price pairs
QtyAtPrice(orders) == [k \in 1..Len(orders) |-> <<orders[k].quantity, orders[k].price>>]

\* quantity > 0 and price >= 0: an order section 7 of the specification allows
ValidOrder(o) == o.quantity > 0 /\ o.price >= 0

\* a printed trade between two valid orders
ValidTrade(trade) ==
    /\ trade.buy[3] > 0 /\ trade.buy[4] >= 0
    /\ trade.sell[3] > 0 /\ trade.sell[4] >= 0

\* C1: whenever an addOrder call has returned to its caller, every slot has
\* an empty side or a first buy price strictly below its first sell price.
C1_NoCrossAtReturn ==
    pc = "client" =>
        \A i \in StoredSlots :
            NotCrossed(order_books[i].buy_orders, order_books[i].sell_orders)

\* an addOrder call that matched has returned and left a residue in its slot
C1_Witness ==
    /\ pc = "client"
    /\ trades # <<>>
    /\ ValidTrade(trades[1])
    /\ Book(order_books, CallSlot) # EmptyBook

\* C2: in every slot the buy list is sorted by price descending and the sell
\* list by price ascending, and among equal prices the order inserted
\* earlier stands first.
C2_PriceOrdering ==
    \A i \in StoredSlots :
        LET buy_orders == order_books[i].buy_orders
            sell_orders == order_books[i].sell_orders
        IN  /\ \A a, b \in 1..Len(buy_orders) :
                  a < b => \/ buy_orders[a].price > buy_orders[b].price
                           \/ /\ buy_orders[a].price = buy_orders[b].price
                              /\ buy_orders[a].seq < buy_orders[b].seq
            /\ \A a, b \in 1..Len(sell_orders) :
                  a < b => \/ sell_orders[a].price < sell_orders[b].price
                           \/ /\ sell_orders[a].price = sell_orders[b].price
                              /\ sell_orders[a].seq < sell_orders[b].seq

\* two buy orders of one price, the earlier one first and partly filled
C2_Witness ==
    \E i \in StoredSlots :
        LET buy_orders == order_books[i].buy_orders
        IN  /\ Len(buy_orders) = 2
            /\ buy_orders[1].price = buy_orders[2].price
            /\ buy_orders[1].quantity < buy_orders[2].quantity
            /\ trades # <<>>

\* the order of a list that price-time priority serves first: the best
\* price (highest for "Buy", lowest for "Sell"), then the lowest seq
IsFirstInPriority(o, orders, order_type) ==
    /\ o \in Range(orders)
    /\ \A p \in Range(orders) :
          \/ p.seq = o.seq
          \/ IF order_type = "Buy" THEN p.price < o.price ELSE p.price > o.price
          \/ p.price = o.price /\ o.seq < p.seq

\* the orders of `before` that a step filled: gone from `after`, or there
\* with another quantity
Touched(before, after) ==
    {o \in Range(before) :
        \A p \in Range(after) : p.seq = o.seq => p.quantity # o.quantity}

\* an order as line 77 prints it
Shown(o) == <<o.order_type, o.ticker_symbol, o.quantity, o.price>>

\* C3: in every step of matchOrder that matches, the two orders printed as
\* matched are the earliest inserted at the best price of their lists, and
\* no other resident order of the slot changes its quantity or leaves: of
\* two buy orders A, B of one price, A inserted first, B is not filled
\* while A is resident.
C3_TimePriority ==
    [][pc = "matchOrder_71" /\ Len(trades') = Len(trades) + 1 =>
          LET before == Book(order_books, CallSlot)
              after == Book(order_books', CallSlot)
              trade == trades'[Len(trades')]
          IN  /\ \E o \in Range(before.buy_orders) :
                    /\ IsFirstInPriority(o, before.buy_orders, "Buy")
                    /\ trade.buy = Shown(o)
                    /\ Touched(before.buy_orders, after.buy_orders) \subseteq {o}
              /\ \E o \in Range(before.sell_orders) :
                    /\ IsFirstInPriority(o, before.sell_orders, "Sell")
                    /\ trade.sell = Shown(o)
                    /\ Touched(before.sell_orders, after.sell_orders) \subseteq {o}
              /\ \A A, B \in Range(before.buy_orders) :
                    A.price = B.price /\ A.seq < B.seq =>
                        B \notin Touched(before.buy_orders, after.buy_orders)
      ]_vars

\* bids A then B at one price, a crossing ask for part of A: A is partly
\* filled and stands before B, which is whole
C3_Witness ==
    /\ pc = "client"
    /\ Len(trades) = 1
    /\ LET buy_orders == Book(order_books, CallSlot).buy_orders
       IN  /\ Len(buy_orders) = 2
           /\ buy_orders[1].price = buy_orders[2].price
           /\ buy_orders[1].seq < buy_orders[2].seq
           /\ buy_orders[1].quantity = 6
           /\ buy_orders[2].quantity = 10
           /\ call.order_type = "Sell"

\* C4: a step of the matchOrder loop matches exactly when both lists are
\* non-empty and the first buy price >= the first sell price; the printed
\* trade_qty is the smaller of the two quantities; each of the two orders
\* stays with its quantity less trade_qty or, that being 0, leaves its list;
\* and one of the two leaves.
C4_MatchArithmetic ==
    [][pc = "matchOrder_71" =>
          LET before == Book(order_books, CallSlot)
              after == Book(order_books', CallSlot)
              matched == Len(trades') = Len(trades) + 1
              rest(o, orders) ==
                  IF o.quantity = 0 THEN Tail(orders)
                  ELSE <<o>> \o Tail(orders)
          IN  /\ matched <=>
                    /\ before.buy_orders # <<>>
                    /\ before.sell_orders # <<>>
                    /\ Head(before.buy_orders).price >= Head(before.sell_orders).price
              /\ ~matched => after = before /\ trades' = trades
              /\ matched =>
                    LET best_buy == Head(before.buy_orders)
                        best_sell == Head(before.sell_orders)
                        trade_qty == trades'[Len(trades')].trade_qty
                    IN  /\ trades' = Append(trades, trades'[Len(trades')])
                        /\ \/ trade_qty = best_buy.quantity /\ trade_qty <= best_sell.quantity
                           \/ trade_qty = best_sell.quantity /\ trade_qty <= best_buy.quantity
                        /\ after.buy_orders =
                              rest([best_buy EXCEPT !.quantity = @ - trade_qty],
                                   before.buy_orders)
                        /\ after.sell_orders =
                              rest([best_sell EXCEPT !.quantity = @ - trade_qty],
                                   before.sell_orders)
                        /\ \/ best_buy.quantity - trade_qty = 0
                           \/ best_sell.quantity - trade_qty = 0
      ]_vars

\* a match at equal prices has just filled both orders, and both have left
C4_Witness ==
    /\ pc = "matchOrder_71"
    /\ Len(trades) = 1
    /\ trades[1].buy[4] = trades[1].sell[4]
    /\ trades[1].trade_qty = 10
    /\ pre # EmptyBook
    /\ Book(order_books, CallSlot) = EmptyBook

\* C5 as stated: no print_orders call, the one inside addOrder included,
\* prints a slot with both sides non-empty and first buy price >= first
\* sell price.  Stated for the printed slots whose orders are all valid, so
\* that no invalid order is behind a violation.
C5_NeverPrintedCrossed ==
    \A line \in printed.lines :
        (\A o \in Range(line[2]) \cup Range(line[3]) : ValidOrder(o)) =>
            NotCrossed(line[2], line[3])

\* C5, amended: the print_orders call at the end of matchOrder prints no
\* crossed slot; the call inside addOrder, which comes before the matching,
\* prints no crossed slot other than the slot of the order just added.
C5_PrintedCrossedOnlyBeforeMatching ==
    \A line \in printed.lines :
        \/ NotCrossed(line[2], line[3])
        \/ printed.by = "addOrder" /\ line[1] = CallSlot

\* matchOrder has matched, printed the slot with its residue, and returned
C5_Witness ==
    /\ printed.by = "matchOrder"
    /\ pc = "client"
    /\ trades # <<>>
    /\ ValidTrade(trades[1])
    /\ \E line \in printed.lines :
          /\ line[1] = CallSlot
          /\ \A o \in Range(line[2]) \cup Range(line[3]) : ValidOrder(o)

\* C6: two successive simulate_transactions calls of one process, with the
\* same num_transactions and num_workers, print the same sequence of trades.
C6_SuccessiveRunsSameTrades ==
    Len(runs) >= 2 => runs[2] = runs[1]

\* C7: in every state of a simulate_transactions run every resident order
\* has quantity > 0: the worker adds none below 1, and a matching step pops
\* an order in the step that brings it to 0.
C7_ResidentQuantityPositive ==
    \A i \in StoredSlots :
        \A o \in Range(order_books[i].buy_orders) \cup Range(order_books[i].sell_orders) :
            o.quantity > 0

\* a matching step of a run has just filled the worker's buy order whole:
\* it has left its list, and the sell order stays with the rest
C7_Witness ==
    /\ pc = "matchOrder_71"
    /\ trades # <<>>
    /\ LET trade == trades[Len(trades)]
       IN  /\ trade.buy = Shown(call)
           /\ trade.trade_qty = call.quantity
           /\ trade.sell[3] > trade.trade_qty
    /\ Book(order_books, CallSlot).buy_orders = <<>>
    /\ Book(order_books, CallSlot).sell_orders # <<>>

\* C8: an addOrder call with quantity <= 0 or price < 0 is rejected: from
\* the call on, its slot is as it was at the call and no trade is printed.
C8_InvalidOrderRejected ==
    ncalls > 0 /\ ~ValidOrder(call) =>
        /\ Book(order_books, CallSlot) = pre
        /\ trades = <<>>

\* the arguments of a call, the ticker as its slot
Called(c) == <<c.order_type, ticker_to_index(c.ticker_symbol), c.quantity, c.price>>

\* C9: with slot 7 empty at first and each call having returned: after
\* addOrder(Buy, 10, 100) no trade and bids [10@100]; after then
\* addOrder(Sell, 4, 90) one trade of 4, bids [6@100], no asks; after then
\* addOrder(Sell, 10, 100) one trade of 6, no bids, asks [4@100].
C9_Scenario ==
    LET book == Book(order_books, 7)
        bids == QtyAtPrice(book.buy_orders)
        asks == QtyAtPrice(book.sell_orders)
        scenario == << <<"Buy", 7, 10, 100>>, <<"Sell", 7, 4, 90>>, <<"Sell", 7, 10, 100>> >>
        done(n) == /\ pc = "client"
                   /\ Len(calls) = n
                   /\ \A k \in 1..n : Called(calls[k]) = scenario[k]
    IN  /\ done(1) => /\ trades = <<>>
                      /\ bids = <<<<10, 100>>>>
                      /\ asks = <<>>
        /\ done(2) => /\ Len(trades) = 1
                      /\ trades[1].trade_qty = 4
                      /\ bids = <<<<6, 100>>>>
                      /\ asks = <<>>
        /\ done(3) => /\ Len(trades) = 1
                      /\ trades[1].trade_qty = 6
                      /\ bids = <<>>
                      /\ asks = <<<<4, 100>>>>

\* the three calls of the scenario have been made and have returned
C9_Witness ==
    /\ pc = "client"
    /\ Len(calls) = 3
    /\ Called(calls[1]) = <<"Buy", 7, 10, 100>>
    /\ Called(calls[2]) = <<"Sell", 7, 4, 90>>
    /\ Called(calls[3]) = <<"Sell", 7, 10, 100>>
    /\ QtyAtPrice(Book(order_books, 7).sell_orders) = <<<<4, 100>>>>

\* the sum of the quantities of a list
RECURSIVE SumQuantity(_)
SumQuantity(orders) ==
    IF orders = <<>> THEN 0 ELSE Head(orders).quantity + SumQuantity(Tail(orders))

ResidentQuantity(book) == SumQuantity(book.buy_orders) + SumQuantity(book.sell_orders)

ResidentOrders(book) == Len(book.buy_orders) + Len(book.sell_orders)

\* C10: the matchOrder loop ends: a step taken at its head either leaves
\* the loop or matches and lowers the number of resident orders of the
\* slot, which is finite and not negative.  On a slot whose resident orders
\* all have quantity >= 1 a matching step has trade_qty >= 1 and lowers the
\* total resident quantity of the slot.
C10_MatchingTerminates ==
    [][pc = "matchOrder_71" =>
          LET before == Book(order_books, CallSlot)
              after == Book(order_books', CallSlot)
          IN  \/ pc' # "matchOrder_71"
              \/ /\ Len(trades') = Len(trades) + 1
                 /\ ResidentOrders(after) < ResidentOrders(before)
                 /\ (\A o \in Range(before.buy_orders) \cup Range(before.sell_orders) :
                         o.quantity >= 1) =>
                       /\ trades'[Len(trades')].trade_qty >= 1
                       /\ ResidentQuantity(after) < ResidentQuantity(before)
      ]_vars

\* the loop has matched twice in one call, on a slot of valid orders, and
\* matchOrder has returned
C10_Witness ==
    /\ pc = "client"
    /\ Len(trades) = 2
    /\ ValidTrade(trades[1])
    /\ ValidTrade(trades[2])

(***************************************************************************)
(* The log of a run: <<"round">> when a round of the scheduling loop        *)
(* begins (line 135), <<"next", j, txn>> at a next(workers[j]) call, txn    *)
(* the steps worker j has made before it, and <<"order", j, k, seeds>> at   *)
(* the k-th addOrder call of worker j, seeds the four seeds drawn for it.   *)
(* A log grows by one entry at a time, so a property of its last entry      *)
(* against the entries before it, holding in every state, holds of every    *)
(* entry.                                                                   *)
(***************************************************************************)
\* the positions before q of the entries of the given kinds
Before(q, kinds) == {k \in 1..(q - 1) : log[k][1] \in kinds}

Last(S) == CHOOSE k \in S : \A m \in S : m <= k

\* (worker, k) of the orders logged before position q
OrdersBefore(q) == {<<log[p][2], log[p][3]>> : p \in Before(q, {"order"})}

\* C11: in each round of simulate_transactions the next() calls go to the
\* workers 0, 1, 2, ... in this order, one call each and none passed over,
\* and a new round begins only after the last worker's call; so the k-th
\* order of worker j comes after the first k - 1 orders of every worker and
\* the k-th order of each worker i < j, and before every other order.
C11_RoundRobin ==
    log # <<>> =>
        LET q == Len(log)
            e == log[q]
            sched == Before(q, {"round", "next"})
        IN  /\ e[1] = "next" =>
                  /\ sched # {}
                  /\ e[2] = (IF log[Last(sched)][1] = "round" THEN 0
                             ELSE log[Last(sched)][2] + 1)
                  /\ e[2] < num_workers
            /\ e[1] = "round" /\ sched # {} =>
                  /\ log[Last(sched)][1] = "next"
                  /\ log[Last(sched)][2] = num_workers - 1
            /\ e[1] = "order" =>
                  /\ OrdersBefore(q) =
                         {<<i, m>> : i \in 0..(num_workers - 1), m \in 1..(e[3] - 1)}
                            \cup {<<i, e[3]>> : i \in 0..(e[2] - 1)}
                  /\ Cardinality(Before(q, {"order"})) =
                         (e[3] - 1) * num_workers + e[2]

\* worker 2 of four has just made its third order
C11_Witness ==
    /\ num_workers = 4
    /\ log # <<>>
    /\ log[Len(log)][1] = "order"
    /\ log[Len(log)][2] = 2
    /\ log[Len(log)][3] = 3

\* the rounds begun in the run
Rounds == Cardinality(Before(Len(log) + 1, {"round"}))

\* how far a next() call has come, counted down: the scheduler before the
\* call (6), the worker at line 97 (5), matchOrder within addOrder (4),
\* line 116 (3), the worker's own matchOrder (2), line 117 (1); 0 at the
\* head of the outer loop
Stage ==
    CASE pc = "simulate_137" -> 6
      [] pc = "worker_97" -> 5
      [] pc = "matchOrder_71" /\ stack[Len(stack)] = "addOrder_59" -> 4
      [] pc = "worker_116" -> 3
      [] pc = "matchOrder_71" /\ stack[Len(stack)] = "worker_117" -> 2
      [] pc = "worker_117" -> 1
      [] OTHER -> 0

\* rounds still to begin, next() calls still to make in the round, the
\* stage of the call under way, the resident orders of a slot being matched
Measure ==
    <<(num_transactions + 1) - Rounds,
      Len(workers) - j,
      Stage,
      IF pc = "matchOrder_71" THEN ResidentOrders(Book(order_books, CallSlot)) ELSE 0>>

\* the lexicographic order of two measures
LexLess(a, b) ==
    \E k \in 1..Len(a) : a[k] < b[k] /\ \A m \in 1..(k - 1) : a[m] = b[m]

\* the positions of the log at which a round begins
RoundStarts == Before(Len(log) + 1, {"round"})

\* simulate_transactions has returned: every worker has made exactly
\* num_transactions orders, and the last round begun is the only one
\* without an order
Completed ==
    /\ \A w \in 1..Len(workers) :
          /\ workers[w].txn = num_transactions
          /\ {log[p][3] : p \in {q \in Before(Len(log) + 1, {"order"}) : log[q][2] = w - 1}}
                = 1..num_transactions
    /\ Len(workers) = num_workers
    /\ Cardinality(Before(Len(log) + 1, {"order"})) = num_workers * num_transactions
    /\ RoundStarts # {}
    /\ \A r \in RoundStarts :
          (r = Last(RoundStarts)) <=>
              ~\E p \in Before(Len(log) + 1, {"order"}) :
                    /\ r < p
                    /\ \A r2 \in RoundStarts : r2 > r => p < r2

\* C12: a simulate_transactions call ends: each step of it is its return
\* or lowers Measure in the lexicographic order, and every component of
\* Measure stays at 0 or above.  At its return every worker has made
\* exactly num_transactions addOrder calls, num_workers * num_transactions
\* in all, and the round it ended in is the first round without a step.
C12_SimulationCompletes ==
    [][pc # "main" =>
          \A before \in {Measure}, after \in {Measure'} :
              /\ pc' = "main" \/ LexLess(after, before)
              /\ \A k \in 1..Len(after) : after[k] >= 0
              /\ pc' = "main" => Completed'
      ]_vars

\* the run of the module's last line, five workers of ten transactions,
\* has returned
C12_Witness ==
    /\ pc = "main"
    /\ runs # <<>>
    /\ num_workers = DEFAULT_NUM_WORKERS
    /\ num_transactions = DEFAULT_TRANSACTIONS
    /\ Cardinality(Before(Len(log) + 1, {"order"})) = 50

\* control is with the scheduler: in simulate_transactions, outside next()
AtScheduler == pc \in {"simulate_134", "simulate_137"}

\* the workers whose next() call is under way
Running == {w \in 1..Len(workers) : workers[w].state = "running"}

\* C13: while control is with the scheduler no generator is running, each
\* suspended one has finished the steps it began (its orders in the log
\* number its txn, which is 1 or more), and every slot is non-crossed; while
\* a next() call is under way the one generator running is workers[j]; and
\* at line 97, before a worker builds and inserts an order, every slot is
\* non-crossed.
C13_AtomicSteps ==
    /\ AtScheduler =>
          /\ Running = {}
          /\ \A w \in 1..Len(workers) :
                workers[w].state = "suspended" =>
                    /\ workers[w].txn >= 1
                    /\ Cardinality({p \in Before(Len(log) + 1, {"order"}) :
                                        log[p][2] = w - 1}) = workers[w].txn
    /\ AtScheduler \/ pc = "worker_97" =>
          \A i \in StoredSlots :
              NotCrossed(order_books[i].buy_orders, order_books[i].sell_orders)
    /\ pc \in {"worker_97", "worker_116", "worker_117", "matchOrder_71"} =>
          Running = {j + 1}

\* a worker's order has been matched in part, the worker has yielded and
\* control is with the scheduler, the rest of the order in its slot
C13_Witness ==
    /\ pc = "simulate_137"
    /\ j > 0
    /\ workers[j].state = "suspended"
    /\ trades # <<>>
    /\ LET trade == trades[Len(trades)]
       IN  \/ trade.buy = Shown(call) /\ trade.trade_qty < call.quantity
           \/ trade.sell = Shown(call) /\ trade.trade_qty < call.quantity
    /\ Book(order_books, CallSlot) # EmptyBook

\* the positions of the next() calls on worker w logged before position q
NextCallsBefore(q, w) == {p \in Before(q, {"next"}) : log[p][2] = w}

\* C14 as stated: no next() call is made on a worker that has made
\* num_transactions steps.
C14_NoNextAfterLastStep ==
    \A p \in Before(Len(log) + 1, {"next"}) : log[p][3] < num_transactions

\* C14, amended: a worker that has made num_transactions steps gets one
\* more next() call and no further one.  The steps a worker has made at
\* its next() calls go up by one from call to call, from 0 to
\* num_transactions; an order is made only within a call at which they are
\* below num_transactions; and a run that has returned made exactly one
\* call at num_transactions on each worker.
C14_OneNextAfterLastStep ==
    /\ log # <<>> =>
          LET q == Len(log)
              e == log[q]
              earlier == NextCallsBefore(q, e[2])
          IN  /\ e[1] = "next" =>
                    /\ e[3] <= num_transactions
                    /\ e[3] = Cardinality(earlier)
                    /\ \A p \in earlier : log[p][3] < e[3]
              /\ e[1] = "order" =>
                    /\ log[q - 1] = <<"next", e[2], e[3] - 1>>
                    /\ e[3] - 1 < num_transactions
    /\ pc = "main" /\ runs # <<>> =>
          \A w \in 0..(num_workers - 1) :
              Cardinality({p \in NextCallsBefore(Len(log) + 1, w) :
                              log[p][3] = num_transactions}) = 1

\* a worker that had made its three steps got a next() call, made no order
\* in it and is done
C14_Witness ==
    /\ num_transactions = 3
    /\ pc = "simulate_137"
    /\ j = 2
    /\ log[Len(log)] = <<"next", 1, 3>>
    /\ workers[2].state = "done"
    /\ Cardinality(Before(Len(log) + 1, {"order"})) = 3 * num_workers

\* the orders of a slot
OrdersOf(book) == Range(book.buy_orders) \cup Range(book.sell_orders)

\* C15: a step of an addOrder call on slot i leaves the two lists of every
\* other slot as they are.  In slot i an order that stays keeps its list,
\* side, ticker and price; the orders that leave or change quantity are
\* first in their lists, and they do so in a matching step only; the one
\* order that enters is the order of the call, at its insertion.
C15_Frame ==
    [][\A i \in {ticker_to_index(call'.ticker_symbol)} :
       \A before \in {Book(order_books, i)}, after \in {Book(order_books', i)} :
       LET entered == {o \in OrdersOf(after) :
                          \A p \in OrdersOf(before) : p.seq # o.seq}
       IN  /\ \A k \in (DOMAIN order_books \cup DOMAIN order_books') \ {i} :
                 Book(order_books', k) = Book(order_books, k)
           /\ \A o \in Range(before.buy_orders), p \in OrdersOf(after) :
                 p.seq = o.seq =>
                     /\ p \in Range(after.buy_orders)
                     /\ p = [o EXCEPT !.quantity = p.quantity]
           /\ \A o \in Range(before.sell_orders), p \in OrdersOf(after) :
                 p.seq = o.seq =>
                     /\ p \in Range(after.sell_orders)
                     /\ p = [o EXCEPT !.quantity = p.quantity]
           /\ IF pc = "matchOrder_71"
              THEN /\ entered = {}
                   /\ \A o \in Touched(before.buy_orders, after.buy_orders) :
                         o = Head(before.buy_orders)
                   /\ \A o \in Touched(before.sell_orders, after.sell_orders) :
                         o = Head(before.sell_orders)
              ELSE /\ Touched(before.buy_orders, after.buy_orders) = {}
                   /\ Touched(before.sell_orders, after.sell_orders) = {}
                   /\ entered = {[order_type |-> call'.order_type,
                                  ticker_symbol |-> call'.ticker_symbol,
                                  quantity |-> call'.quantity,
                                  price |-> call'.price,
                                  seq |-> ncalls']}
      ]_vars

\* slot 8 holds an order, and a call on slot 7 has returned after filling
\* part of the first of two resident orders
C15_Witness ==
    /\ pc = "client"
    /\ CallSlot = 7
    /\ Len(trades) = 1
    /\ Book(order_books, 8) # EmptyBook
    /\ pre # EmptyBook
    /\ \E o \in OrdersOf(Book(order_books, 7)) : o.quantity = 6

\* the number a in the name TICKER<a>: the digits after the six letters
NumberOf(ticker_symbol) == ParseInt(SubSeq(ticker_symbol, Len(TICKER) + 1, Len(ticker_symbol)))

\* numbers of ticker names: those of the client's calls, and more around
\* the multiples of NUM_TICKERS
NumberSample == TickerNumbers \cup {0, 1, 1023, 1024, 1025, 2047, 2048, 2055, 10247}

\* all the orders in the books
AllOrders == UNION {OrdersOf(order_books[i]) : i \in StoredSlots}

\* C16: TICKER<a> and TICKER<b> have the same slot exactly when a and b are
\* congruent modulo NUM_TICKERS; an order stands in the book of the slot
\* its number is congruent to, whatever its name; and when an addOrder call
\* has returned no Buy and Sell of congruent numbers are left with the
\* Buy's price at or above the Sell's, under one name or two.
C16_SlotCollision ==
    /\ ncalls = 0 =>
          \A a, b \in NumberSample :
              (ticker_to_index(TickerSymbol(a)) = ticker_to_index(TickerSymbol(b)))
                  <=> (a % NUM_TICKERS = b % NUM_TICKERS)
    /\ \A i \in StoredSlots :
          \A o \in OrdersOf(order_books[i]) :
              NumberOf(o.ticker_symbol) % NUM_TICKERS = i
    /\ pc = "client" =>
          \A o, p \in AllOrders :
              /\ o.order_type = "Buy"
              /\ p.order_type = "Sell"
              /\ NumberOf(o.ticker_symbol) % NUM_TICKERS = NumberOf(p.ticker_symbol) % NUM_TICKERS
              => o.price < p.price

\* a Buy for TICKER7 and a Sell for TICKER1031, resident in slot 7, have
\* been matched with each other
C16_Witness ==
    /\ pc = "client"
    /\ Len(trades) = 1
    /\ ValidTrade(trades[1])
    /\ trades[1].buy[2] = TickerSymbol(7)
    /\ trades[1].sell[2] = TickerSymbol(1031)
    /\ \E o \in OrdersOf(Book(order_books, 7)) :
          o.ticker_symbol = TickerSymbol(1031) /\ o.order_type = "Sell"

\* the four seeds drawn for the last order of the log
LastSeeds == log[Len(log)][4]

\* C17 as stated: the side of an order depends only on the parity of the
\* seed drawn for it, so it is the side that the seed 0 or 1 of the same
\* parity yields.
C17_SideByParity ==
    log # <<>> => call.order_type = OrderType(LastSeeds[1] % 2)

\* C17, amended: the side is Buy when the first seed drawn is below
\* LCG_MODULUS // 2 and Sell when not, whatever its parity; the slot of the
\* ticker is the second seed modulo NUM_TICKERS, the quantity the third
\* modulo 100, plus 1, and the price the fourth modulo 991, plus 10.
C17_SideByUpperHalf ==
    log # <<>> =>
        /\ call.order_type = (IF LastSeeds[1] \div LCG_HALF_MODULUS = 0 THEN "Buy" ELSE "Sell")
        /\ NumberOf(call.ticker_symbol) = LastSeeds[2] % NUM_TICKERS
        /\ call.quantity - 1 = LastSeeds[3] % 100
        /\ call.price - 10 = LastSeeds[4] % 991

\* an even seed has yielded Sell and the step before it, from an even seed
\* as well, Buy
C17_Witness ==
    /\ Len(log) >= 2
    /\ LastSeeds[1] % 2 = 0
    /\ call.order_type = "Sell"
    /\ log[Len(log) - 1][4][1] % 2 = 0
    /\ log[Len(log) - 1][4][1] < LCG_HALF_MODULUS

\* C18: the order a worker builds from any seed has quantity in 1..100,
\* price in 10..1000 and a ticker with slot in 0..NUM_TICKERS-1, and each
\* of the four seeds drawn, the one kept included, is in 0..LCG_MODULUS-1.
C18_GeneratedBounds ==
    /\ \A w \in 1..Len(workers) :
          workers[w].local_seed >= 0 /\ workers[w].local_seed <= LCG_MODULUS_MINUS_1
    /\ log # <<>> =>
          /\ call.quantity >= 1 /\ call.quantity <= 100
          /\ call.price >= 10 /\ call.price <= 1000
          /\ ticker_to_index(call.ticker_symbol) \in Slots
          /\ \A k \in 1..4 : LastSeeds[k] >= 0 /\ LastSeeds[k] <= LCG_MODULUS_MINUS_1
          /\ workers[j + 1].local_seed = LastSeeds[4]

\* the order 100 @ 1000, the largest quantity at the largest price
C18_Witness ==
    /\ log # <<>>
    /\ call.quantity = 100
    /\ call.price = 1000

\* the matchOrder call under way is the worker's own, of line 116
InWorkerMatch == pc = "matchOrder_71" /\ stack[Len(stack)] = "worker_117"

\* C19: the matchOrder call a worker makes at line 116, after addOrder has
\* matched, finds its slot non-crossed, makes no match and changes no list
\* of any slot: its one step is its return, the trades and order_books as
\* they were.
C19_MatchIdempotent ==
    [][InWorkerMatch =>
          /\ NotCrossed(Book(order_books, CallSlot).buy_orders,
                        Book(order_books, CallSlot).sell_orders)
          /\ pc' = "worker_117"
          /\ trades' = trades
          /\ order_books' = order_books
      ]_vars

\* addOrder has matched the worker's order in part, and the worker's own
\* matchOrder call has returned
C19_Witness ==
    /\ pc = "worker_117"
    /\ printed.by = "matchOrder"
    /\ trades # <<>>
    /\ LET trade == trades[Len(trades)]
       IN  \/ trade.buy = Shown(call)
           \/ trade.sell = Shown(call)
    /\ Book(order_books, CallSlot) # EmptyBook

\* the list of a slot on the side of the last call
OwnSide(book) == IF call.order_type = "Buy" THEN book.buy_orders ELSE book.sell_orders

\* the line-77 form of the party of a trade on the side of the last call
OwnParty(trade) == IF call.order_type = "Buy" THEN trade.buy ELSE trade.sell

\* the order of the last call, while it is resident
Incoming(book) == {o \in Range(OwnSide(book)) : o.seq = ncalls}

\* C20: from the insertion of an addOrder call with quantity > 0 on a
\* non-crossed slot to its return: a match about to be made has the new
\* order first on its side, and every trade made names an order of the
\* call's side, ticker and price; the other orders of that side stand as
\* at the call, quantities and sequence; and the slot holds at most one
\* order more than at the call, one more only with the new order resident
\* at a quantity above 0.
C20_IncomingOrderParty ==
    ncalls > 0 /\ call.quantity > 0 /\ NotCrossed(pre.buy_orders, pre.sell_orders) =>
        LET book == Book(order_books, CallSlot)
            resting(o) == o.seq # ncalls
        IN  /\ pc = "matchOrder_71" /\ CanMatch(book) =>
                  Head(OwnSide(book)).seq = ncalls
            /\ \A k \in 1..Len(trades) :
                  /\ OwnParty(trades[k])[1] = call.order_type
                  /\ OwnParty(trades[k])[2] = call.ticker_symbol
                  /\ OwnParty(trades[k])[4] = call.price
            /\ SelectSeq(OwnSide(book), resting) = OwnSide(pre)
            /\ ResidentOrders(book) <= ResidentOrders(pre) + 1
            /\ ResidentOrders(book) = ResidentOrders(pre) + 1 =>
                  \E o \in Incoming(book) : o.quantity > 0

\* a Buy has been filled whole by the one resting Sell and has left, and
\* the Buy that rested at the call stands as it was
C20_Witness ==
    /\ pc = "client"
    /\ call.order_type = "Buy"
    /\ Len(trades) = 1
    /\ ValidTrade(trades[1])
    /\ trades[1].trade_qty = call.quantity
    /\ pre.buy_orders # <<>>
    /\ pre.sell_orders # <<>>
    /\ Book(order_books, CallSlot).buy_orders = pre.buy_orders

=============================================================================
